---- MODULE Spec2Model ----
(***************************************************************************)
(* Model of the prompt editor's core: the usePromptEditor store, the       *)
(* OpenAIService gateway with its localStorage result cache, and the       *)
(* autosave effects of App.                                                *)
(*                                                                         *)
(* Strings are sequences of character codes.  Time is in milliseconds, as  *)
(* Date.now(), setTimeout and setInterval count it.  An optional value     *)
(* (null or a value) is a sequence of length 0 or 1.                       *)
(***************************************************************************)
EXTENDS Integers, Sequences, FiniteSets, TLC

\* ---------------------------------------------------------------- bounds
\* Number of times the clock is advanced in one run.
MaxAdvances == 3
\* Number of requests the external provider accepts in one run.
MaxProviderCalls == 3
\* Number of provider requests outstanding at the same time.
MaxInflight == 2
\* Number of operations called on the store in one run.
MaxCalls == 3
\* The clock of a long editing session stops here (ms): the period of the
\* interval and one debounce delay.
BusyHorizon == 32000

\* ------------------------------------------------------ program constants
DebounceMs == 2000
PeriodicMs == 30000
CacheTtlMs == 24 * 60 * 60 * 1000

\* ------------------------------------------------------------------ text
\* The separator of Array.prototype.join('\n\n').
BlankLine == <<10, 10>>

PromptEmpty == <<>>
\* A single space: a whitespace-only prompt.
PromptBlank == <<32>>
\* "Aa" and "BB": two prompts with the same rolling hash.
PromptAa == <<65, 97>>
PromptBB == <<66, 66>>
Prompts == {PromptEmpty, PromptBlank, PromptAa, PromptBB}

\* Text typed into a segment's editor (handleSaveEdit).
EditedContent == <<101>>

IsWhitespace(c) == c \in {32, 10, 9, 13}

RECURSIVE TrimStart(_)
TrimStart(s) ==
  IF s # <<>> /\ IsWhitespace(Head(s)) THEN TrimStart(Tail(s)) ELSE s

RECURSIVE TrimEnd(_)
TrimEnd(s) ==
  IF s # <<>> /\ IsWhitespace(s[Len(s)])
  THEN TrimEnd(SubSeq(s, 1, Len(s) - 1))
  ELSE s

\* String.prototype.trim
Trim(s) == TrimEnd(TrimStart(s))

\* Array.prototype.join over a sequence of strings.
RECURSIVE Join(_, _)
Join(parts, sep) ==
  IF parts = <<>> THEN <<>>
  ELSE IF Len(parts) = 1 THEN parts[1]
  ELSE parts[1] \o sep \o Join(Tail(parts), sep)

Abs(n) == IF n < 0 THEN -n ELSE n

\* The ordinal title that counts from zero.
OrdinalTitleFromZero(index) == <<83, 101, 103, 109, 101, 110, 116, 32, 48 + index>>

\* `Segment ${index + 1}` for a zero-based index below 9.
OrdinalTitle(index) == <<83, 101, 103, 109, 101, 110, 116, 32, 49 + index>>

\* ------------------------------------------------------------- the cache
\* One step of the rolling hash: hash = ((hash << 5) - hash) + char, then
\* hash & hash.  For the inputs of this model (fewer than 6 characters below
\* code 128) the value stays inside the 32-bit range, where `hash & hash`
\* returns it unchanged.
HashStep(hash, char) == ((hash * 32) - hash) + char

RECURSIVE HashFrom(_, _)
HashFrom(hash, input) ==
  IF input = <<>> THEN hash
  ELSE HashFrom(HashStep(hash, Head(input)), Tail(input))

\* `${cachePrefix}${operation}-${Math.abs(hash)}`
GenerateCacheKey(operation, input) == <<operation, Abs(HashFrom(0, input))>>

VARIABLES
  now,          \* Date.now()
  advances,     \* how many times the clock was advanced
  calls,        \* how many operations of the store were called
  mounted,      \* App has run its mount effects
  state,        \* AppState of usePromptEditor, as last committed (rendered)
  config,       \* the config state of usePromptEditor: <<>> or <<model>>
  service,      \* OpenAIService.config / client: <<>> or <<model>>
  credential,   \* localStorage['openai-model'] beside a saved API key: <<>> or <<model>>
  fx,           \* passive effects of the last commit have not run yet
  cache,        \* localStorage under the cache prefix: key -> [data, timestamp]
  session,      \* localStorage['prompt-editor-session']: <<>> or <<snapshot>>
  debounce,     \* the pending setTimeout of the debounce effect: <<>> or <<timer>>
  periodic,     \* the setInterval of the periodic effect: <<>> or <<timer>>
  inflight,     \* requests sent to the provider and not answered yet
  providerCalls,\* how many requests were sent to the provider
  stored,       \* history: key -> the last successful setCachedResult
  lastFresh,    \* history: prompt -> the last segmentize answered by the provider
  lastCall,     \* history: the last call of an AI operation on the service
  lastAnswer,   \* history: the last provider answer and what became of it
  lastSave,     \* history: <<>> or <<the last saveSession: its time and closure>>
  persisted,    \* history: <<>> or <<the snapshot last written to the session key>>
  lastOp,       \* history: the operation or step that ran last
  nonEmptySince,\* history: <<>> or <<time since which segments is non-empty>>
  lastChangeAt, \* history: <<>> or <<time originalPrompt or segments last changed>>
  before,       \* history: AppState before the operation or step that ran last
  completion,   \* history: how the last operation or callback completed
  fatal,        \* <<>> or <<the render that threw and unmounted the tree>>
  lastArg       \* history: the arguments of the operation that ran last

vars == <<now, advances, calls, mounted, state, config, service, credential, fx, cache, session,
          debounce, periodic, inflight, providerCalls, stored, lastFresh,
          lastCall, lastAnswer, lastSave, persisted, lastOp, nonEmptySince,
          lastChangeAt, before, completion, fatal, lastArg>>

\* ------------------------------------------------------------ JS values
\* A JSON value: what JSON.stringify writes of a JavaScript value and what
\* JSON.parse reads.  It carries the JavaScript type, which the service
\* tests a cached payload for.
JsonString(v) == [type |-> "string", v |-> v]
JsonNumber(v) == [type |-> "number", v |-> v]
JsonBoolean(v) == [type |-> "boolean", v |-> v]
JsonArray(v) == [type |-> "array", v |-> v]
JsonObject(v) == [type |-> "object", v |-> v]

\* The JSON value of a member of a PromptSegment, by the type of the field.
MemberToJson(field, x) ==
  IF field \in {"id", "title", "content"} THEN JsonString(x)
  ELSE IF field = "order" THEN JsonNumber(x)
  ELSE JsonBoolean(x)

\* The JSON value of a PromptSegment[]: every own member of every segment.
SegmentsToJson(segments) ==
  JsonArray([i \in 1..Len(segments) |->
               JsonObject([f \in DOMAIN segments[i] |->
                             MemberToJson(f, segments[i][f])])])

\* The JavaScript value of a JSON value.
RECURSIVE FromJson(_)
FromJson(x) ==
  IF x.type = "array" THEN [i \in 1..Len(x.v) |-> FromJson(x.v[i])]
  ELSE IF x.type = "object" THEN [f \in DOMAIN x.v |-> FromJson(x.v[f])]
  ELSE x.v

\* JavaScript truthiness of a JSON value: '', 0 and false are falsy, every
\* array and object is truthy.
Truthy(x) ==
  CASE x.type = "string" -> x.v # <<>>
    [] x.type = "number" -> x.v # 0
    [] x.type = "boolean" -> x.v
    [] OTHER -> TRUE
IsArray(x) == x.type = "array"
IsString(x) == x.type = "string"

\* JSON.stringify: the text written to localStorage.
JsonStringify(v) == [text |-> "json", value |-> v]
\* JSON.parse: the JSON value, or a SyntaxError for text that is not JSON.
JsonParse(item) ==
  IF item.text = "json" THEN [ok |-> TRUE, value |-> item.value]
  ELSE [ok |-> FALSE]

\* Storage without `key` (localStorage.removeItem).
RemoveItem(storage, key) == [k \in DOMAIN storage \ {key} |-> storage[k]]
\* Storage with `key` set to `item` (localStorage.setItem).
SetItem(storage, key, item) ==
  [k \in DOMAIN storage \cup {key} |-> IF k = key THEN item ELSE storage[k]]

\* getCachedResult that still accepts an entry at the age of the TTL.
GetCachedResultLate(storage, key, time) ==
  IF key \in DOMAIN storage
  THEN LET parsed == JsonParse(storage[key]) IN
       IF ~parsed.ok
       THEN [data |-> <<>>, storage |-> storage]
       ELSE IF time - parsed.value.v.timestamp.v <= CacheTtlMs
       THEN [data |-> <<parsed.value.v.data>>, storage |-> storage]
       ELSE [data |-> <<>>, storage |-> RemoveItem(storage, key)]
  ELSE [data |-> <<>>, storage |-> storage]

\* getCachedResult that answers an unreadable record with an empty list.
GetCachedResultDefaulting(storage, key, time) ==
  IF key \in DOMAIN storage
  THEN LET parsed == JsonParse(storage[key]) IN
       IF ~parsed.ok
       THEN [data |-> <<JsonArray(<<>>)>>, storage |-> storage]
       ELSE IF time - parsed.value.v.timestamp.v < CacheTtlMs
       THEN [data |-> <<parsed.value.v.data>>, storage |-> storage]
       ELSE [data |-> <<>>, storage |-> RemoveItem(storage, key)]
  ELSE [data |-> <<>>, storage |-> storage]

\* getCachedResult at time `time`: the data read (<<>> for null) and the
\* storage it leaves.
GetCachedResult(storage, key, time) ==
  IF key \in DOMAIN storage
  THEN LET parsed == JsonParse(storage[key]) IN
       IF ~parsed.ok
       THEN [data |-> <<>>, storage |-> storage]
       ELSE IF time - parsed.value.v.timestamp.v < CacheTtlMs
       THEN [data |-> <<parsed.value.v.data>>, storage |-> storage]
       ELSE [data |-> <<>>, storage |-> RemoveItem(storage, key)]
  ELSE [data |-> <<>>, storage |-> storage]

\* setCachedResult that builds the entry and never writes it.
SetCachedResultDropped(storage, key, data, time, writeOk) == storage

\* setCachedResult at time `time`; `writeOk` is FALSE when setItem throws
\* (storage quota), which the catch absorbs.
SetCachedResult(storage, key, data, time, writeOk) ==
  IF writeOk
  THEN SetItem(storage, key,
               JsonStringify(JsonObject([data |-> data,
                                         timestamp |-> JsonNumber(time)])))
  ELSE storage

\* -------------------------------------------------------------- segments
\* The models the credential form offers.
Models == {"gpt-5-mini", "gpt-4o-mini"}

\* The list of title/content records a segmentize answer parses to: no
\* record; "T"/"a" and a record with an empty title and no content; or a
\* record "b" without title and a record "U" without content.
AnswerLists ==
  { <<>>,
    << [title |-> <<84>>, content |-> <<97>>], [title |-> <<>>] >>,
    << [content |-> <<98>>], [title |-> <<85>>] >> }

\* What the provider may answer to a segmentize request: a thrown error, a
\* choice without content, content that is not JSON, JSON that is no array,
\* or a JSON array of records.
BreakAnswers ==
  { [kind |-> "throw"],
    [kind |-> "empty", finish |-> "stop"],
    [kind |-> "empty", finish |-> "length"],
    [kind |-> "badjson", finish |-> "length"],
    [kind |-> "nonarray", finish |-> "stop"] }
  \cup { [kind |-> "json", finish |-> "stop", value |-> l] : l \in AnswerLists }

\* What the provider may answer to a condense request: " c " and " " are the
\* texts, the second whitespace only.
ConciseAnswers ==
  { [kind |-> "throw"],
    [kind |-> "empty", finish |-> "stop"],
    [kind |-> "empty", finish |-> "length"],
    [kind |-> "text", finish |-> "stop", value |-> <<32, 99, 32>>],
    [kind |-> "text", finish |-> "length", value |-> <<32, 99, 32>>],
    [kind |-> "text", finish |-> "stop", value |-> <<32>>] }

\* segments.map((segment, index) => ({...})) of the service, at time `time`.
ToPromptSegments(list, time) ==
  [i \in 1..Len(list) |->
     [id |-> <<time, i - 1>>,
      title |-> IF "title" \in DOMAIN list[i] /\ list[i].title # <<>>
                THEN list[i].title ELSE OrdinalTitle(i - 1),
      content |-> IF "content" \in DOMAIN list[i] THEN list[i].content ELSE <<>>,
      isIncluded |-> TRUE,
      order |-> i - 1,
      isEditing |-> FALSE,
      isExpanded |-> FALSE]]

\* { ...segment, ...updates }
Merge(segment, updates) ==
  [f \in DOMAIN segment \cup DOMAIN updates |->
     IF f \in DOMAIN updates THEN updates[f] ELSE segment[f]]

\* updateSegment's map that merges the fields into every segment.
MapUpdateAll(segments, id, updates) ==
  [i \in 1..Len(segments) |-> Merge(segments[i], updates)]

\* updateSegment's map that changes the first segment when no id matches.
MapUpdateOrFirst(segments, id, updates) ==
  [i \in 1..Len(segments) |->
     IF \/ segments[i].id = id
        \/ i = 1 /\ \A j \in 1..Len(segments) : segments[j].id # id
     THEN Merge(segments[i], updates) ELSE segments[i]]

\* prev.segments.map(segment => segment.id === id ? {...} : segment)
MapUpdate(segments, id, updates) ==
  [i \in 1..Len(segments) |->
     IF segments[i].id = id THEN Merge(segments[i], updates) ELSE segments[i]]

\* The updates the components pass to updateSegment for a segment.
UpdateChoices(segment) ==
  { [isIncluded |-> ~segment.isIncluded],
    [isEditing |-> TRUE],
    [content |-> EditedContent, isEditing |-> FALSE],
    [isExpanded |-> ~segment.isExpanded] }

\* .filter(s => s.isIncluded)
RECURSIVE FilterIncluded(_)
FilterIncluded(seq) ==
  IF seq = <<>> THEN <<>>
  ELSE IF Head(seq).isIncluded
  THEN <<Head(seq)>> \o FilterIncluded(Tail(seq))
  ELSE FilterIncluded(Tail(seq))

\* The insertion of a sort by descending order.
RECURSIVE InsertByOrderDescending(_, _)
InsertByOrderDescending(sorted, x) ==
  IF sorted = <<>> THEN <<x>>
  ELSE IF Head(sorted).order - x.order >= 0
  THEN <<Head(sorted)>> \o InsertByOrderDescending(Tail(sorted), x)
  ELSE <<x>> \o sorted

\* `x` put into a sequence sorted by order, behind the elements that do not
\* compare greater (Array.prototype.sort is stable).
RECURSIVE InsertByOrder(_, _)
InsertByOrder(sorted, x) ==
  IF sorted = <<>> THEN <<x>>
  ELSE IF Head(sorted).order - x.order <= 0
  THEN <<Head(sorted)>> \o InsertByOrder(Tail(sorted), x)
  ELSE <<x>> \o sorted

\* .sort((a, b) => a.order - b.order)
RECURSIVE SortByOrder(_)
SortByOrder(seq) ==
  IF seq = <<>> THEN <<>>
  ELSE InsertByOrder(SortByOrder(SubSeq(seq, 1, Len(seq) - 1)), seq[Len(seq)])

\* updateFinalOutput without its filter: every segment is put out.
ComputeOutputUnfiltered(segments) ==
  LET includedSegments == SortByOrder(segments)
  IN Join([i \in 1..Len(includedSegments) |-> includedSegments[i].content],
          BlankLine)

\* The output updateFinalOutput computes from state.segments.
ComputeOutput(segments) ==
  LET includedSegments == SortByOrder(FilterIncluded(segments))
  IN Join([i \in 1..Len(includedSegments) |-> includedSegments[i].content],
          BlankLine)

\* arrayMove of @dnd-kit/sortable on zero-based indices: the element at
\* `from` is spliced out and spliced in at `to`, a negative `to` counting
\* from the end of the array as it is before the removal.
ArrayMove(array, from, to) ==
  LET item == array[from + 1]
      rest == [i \in 1..(Len(array) - 1) |->
                 IF i < from + 1 THEN array[i] ELSE array[i + 1]]
      at == IF to < 0 THEN Len(array) + to ELSE to
      pos == IF at > Len(rest) THEN Len(rest) ELSE at
  IN SubSeq(rest, 1, pos) \o <<item>> \o SubSeq(rest, pos + 1, Len(rest))

\* reorderSegments that installs the moved array as it is.
ReindexNot(newSegments) == newSegments

\* The map of reorderSegments counting positions from one.
ReindexFromOne(newSegments) ==
  [i \in 1..Len(newSegments) |-> [newSegments[i] EXCEPT !.order = i]]

\* The map of reorderSegments that also includes every segment again.
ReindexIncluding(newSegments) ==
  [i \in 1..Len(newSegments) |->
     [newSegments[i] EXCEPT !.order = i - 1, !.isIncluded = TRUE]]

\* newSegments.map((segment, index) => ({ ...segment, order: index }))
Reindex(newSegments) ==
  [i \in 1..Len(newSegments) |-> Merge(newSegments[i], [order |-> i - 1])]

\* The closure of saveSession: the prompt and segments of the render that
\* created it.
Snapshot(st) == [originalPrompt |-> st.originalPrompt, segments |-> st.segments]

\* JSON.stringify(sessionData) of saveSession at time `time`.
SessionText(snap, time) ==
  JsonStringify(JsonObject([originalPrompt |-> JsonString(snap.originalPrompt),
                            segments |-> SegmentsToJson(snap.segments),
                            timestamp |-> JsonNumber(time)]))

\* ---------------------------------------------------------- the service
ErrProvider == "Request failed"
ErrNoResponse == "No response from OpenAI"
ErrTruncated == "Response was truncated due to token limit. The prompt may be too large to process in one request."
ErrSyntax == "Unexpected token in JSON"
ErrNotArray == "segments.map is not a function"
ErrNotInitialized == "OpenAI service not initialized"
\* What localStorage.setItem throws when the quota is exceeded, and what the
\* call of a method that a value does not have throws.
ErrQuota == "QuotaExceededError"
ErrType == "TypeError"
BreakFailed == "Failed to break prompt into segments: "
ConciseFailed == "Failed to make content concise: "

\* What OpenAIService.breakPromptIntoSegments makes of the provider's answer
\* at time `time`: the segments it returns, or the message of the Error its
\* catch block throws.
ServiceBreak(answer, time) ==
  CASE answer.kind = "throw" ->
         [ok |-> FALSE, message |-> <<BreakFailed, ErrProvider>>]
    [] answer.kind = "empty" ->
         IF answer.finish = "length"
         THEN [ok |-> FALSE, message |-> <<BreakFailed, ErrTruncated>>]
         ELSE [ok |-> FALSE, message |-> <<BreakFailed, ErrNoResponse>>]
    [] answer.kind = "badjson" ->
         [ok |-> FALSE, message |-> <<BreakFailed, ErrSyntax>>]
    [] answer.kind = "nonarray" ->
         [ok |-> FALSE, message |-> <<BreakFailed, ErrNotArray>>]
    [] answer.kind = "json" ->
         [ok |-> TRUE, value |-> ToPromptSegments(answer.value, time)]

\* What OpenAIService.makeConcise makes of the provider's answer: the
\* trimmed text it returns, or the message of the Error it throws.
ServiceConcise(answer) ==
  CASE answer.kind = "throw" ->
         [ok |-> FALSE, message |-> <<ConciseFailed, ErrProvider>>]
    [] answer.kind = "empty" ->
         [ok |-> FALSE, message |-> <<ConciseFailed, ErrNoResponse>>]
    [] answer.kind = "text" ->
         [ok |-> TRUE, value |-> Trim(answer.value)]

\* The cached value breakPromptIntoSegments accepts: cached && Array.isArray(cached)
BreakHit(data) == data # <<>> /\ Truthy(data[1]) /\ IsArray(data[1])
\* The cached value makeConcise accepts: cached && typeof cached === 'string'
ConciseHit(data) == data # <<>> /\ Truthy(data[1]) /\ IsString(data[1])

\* The entry stored under `key`, as an optional value.
EntryAt(storage, key) ==
  IF key \in DOMAIN storage /\ JsonParse(storage[key]).ok
  THEN <<JsonParse(storage[key]).value.v>>
  ELSE <<>>

RemoveAt(seq, i) == SubSeq(seq, 1, i - 1) \o SubSeq(seq, i + 1, Len(seq))

\* ------------------------------------------------------------- the store
\* How a call completes: it returns a value (<<>> for undefined, <<b>> for a
\* boolean) or throws an error to its caller.
Returned(v) == [kind |-> "return", value |-> v]
Thrown(e) == [kind |-> "throw", error |-> e]

InitialState ==
  [originalPrompt |-> <<>>, segments |-> <<>>, finalOutput |-> <<>>,
   isLoading |-> FALSE, error |-> <<>>]

\* The clock starts at 0; a run of the day before left its records at
\* PreviousRun.
PreviousRun == 0 - CacheTtlMs

\* What localStorage holds of a session when the program starts: nothing, or
\* the snapshot a previous run saved after segmenting "Aa".
InitialSessions ==
  { <<>>,
    <<SessionText([originalPrompt |-> PromptAa,
                   segments |-> ToPromptSegments(
                      << [title |-> <<84>>, content |-> <<97>>],
                         [title |-> <<>>] >>, PreviousRun)],
                  PreviousRun)>> }

\* The id of the third segment of the previous run's list, which no list of
\* this run holds, and the updates the handlers of its component pass: the
\* include checkbox and the save of an edit.
StaleId == <<PreviousRun, 2>>
StaleUpdates ==
  { [isIncluded |-> FALSE],
    [content |-> EditedContent, isEditing |-> FALSE] }

Init ==
  /\ now = 0
  /\ advances = 0
  /\ calls = 0
  /\ mounted = FALSE
  /\ state = InitialState
  /\ config = <<>>
  /\ service = <<>>
  /\ credential \in {<<>>} \cup {<<m>> : m \in Models}
  /\ fx = FALSE
  /\ cache = <<>>
  /\ session \in InitialSessions
  /\ debounce = <<>>
  /\ periodic = <<>>
  /\ inflight = <<>>
  /\ providerCalls = 0
  /\ stored = <<>>
  /\ lastFresh = <<>>
  /\ lastCall = <<>>
  /\ lastAnswer = <<>>
  /\ lastSave = <<>>
  /\ persisted = <<>>
  /\ lastOp = "init"
  /\ nonEmptySince = <<>>
  /\ lastChangeAt = <<>>
  /\ before = InitialState
  /\ completion = Returned(<<>>)
  /\ fatal = <<>>
  /\ lastArg = <<>>

\* A commit that installs a new segments array: the effects that depend on
\* state.segments (and on saveSession, which depends on it) are due.
CommitSegments(newState) ==
  /\ state' = newState
  /\ fx' = TRUE
  /\ nonEmptySince' = IF newState.segments = <<>> THEN <<>>
                      ELSE IF nonEmptySince = <<>> THEN <<now>>
                      ELSE nonEmptySince
  /\ lastChangeAt' = <<now>>

\* A commit that keeps the segments array.
CommitFields(newState) ==
  /\ state' = newState
  /\ UNCHANGED <<fx, nonEmptySince, lastChangeAt>>

\* React runs the pending passive effects before it processes an update, so
\* a store operation finds them run.
Idle == mounted /\ ~fx /\ fatal = <<>>

\* One more operation is called on the store; the count stops at MaxCalls.
Called == calls' = IF calls < MaxCalls THEN calls + 1 ELSE calls

\* setConfig, and the effect that initializes the service for a non-null
\* config.  ApiKeyManager calls it with the credential it saved
\* (handleSave) or with null after removing it (handleClear).
SetConfig(c) ==
  /\ lastOp' = "setConfig"
  /\ lastArg' = <<c>>
  /\ before' = state
  /\ completion' = Returned(<<>>)
  /\ fatal' = fatal
  /\ Idle
  /\ Called
  /\ credential' = c
  /\ config' = c
  /\ service' = IF c # <<>> THEN c ELSE service
  /\ UNCHANGED <<now, advances, mounted, state, fx, cache, session, debounce,
                 periodic, inflight, providerCalls, stored, lastFresh,
                 lastCall, lastAnswer, lastSave, persisted, nonEmptySince, lastChangeAt>>

\* setOriginalPrompt that also takes the store out of the loading state.
SetOriginalPromptIdle(prompt) ==
  /\ lastOp' = "setOriginalPrompt"
  /\ lastArg' = <<prompt>>
  /\ before' = state
  /\ completion' = Returned(<<>>)
  /\ fatal' = fatal
  /\ Idle
  /\ Called
  /\ CommitSegments([state EXCEPT !.originalPrompt = prompt,
                                  !.segments = <<>>,
                                  !.finalOutput = <<>>,
                                  !.isLoading = FALSE,
                                  !.error = <<>>])
  /\ UNCHANGED <<now, advances, mounted, config, service, credential, cache, session,
                 debounce, periodic, inflight, providerCalls, stored,
                 lastFresh, lastCall, lastAnswer, lastSave, persisted>>

SetOriginalPrompt(prompt) ==
  /\ lastOp' = "setOriginalPrompt"
  /\ lastArg' = <<prompt>>
  /\ before' = state
  /\ completion' = Returned(<<>>)
  /\ fatal' = fatal
  /\ Idle
  /\ Called
  /\ CommitSegments([state EXCEPT !.originalPrompt = prompt,
                                  !.segments = <<>>,
                                  !.finalOutput = <<>>,
                                  !.error = <<>>])
  /\ UNCHANGED <<now, advances, mounted, config, service, credential, cache, session,
                 debounce, periodic, inflight, providerCalls, stored,
                 lastFresh, lastCall, lastAnswer, lastSave, persisted>>

\* updateSegment that takes the error away as it changes the segment.
UpdateSegmentClearsError(id, updates) ==
  /\ lastOp' = "updateSegment"
  /\ lastArg' = <<id, updates>>
  /\ before' = state
  /\ completion' = Returned(<<>>)
  /\ fatal' = fatal
  /\ Idle
  /\ Called
  /\ CommitSegments([state EXCEPT !.segments = MapUpdate(@, id, updates),
                                  !.error = <<>>])
  /\ UNCHANGED <<now, advances, mounted, config, service, credential, cache, session,
                 debounce, periodic, inflight, providerCalls, stored,
                 lastFresh, lastCall, lastAnswer, lastSave, persisted>>

UpdateSegment(id, updates) ==
  /\ lastOp' = "updateSegment"
  /\ lastArg' = <<id, updates>>
  /\ before' = state
  /\ completion' = Returned(<<>>)
  /\ fatal' = fatal
  /\ Idle
  /\ Called
  /\ CommitSegments([state EXCEPT !.segments = MapUpdate(@, id, updates)])
  /\ UNCHANGED <<now, advances, mounted, config, service, credential, cache, session,
                 debounce, periodic, inflight, providerCalls, stored,
                 lastFresh, lastCall, lastAnswer, lastSave, persisted>>

ReorderSegments(newSegments) ==
  /\ lastOp' = "reorderSegments"
  /\ lastArg' = <<newSegments>>
  /\ before' = state
  /\ completion' = Returned(<<>>)
  /\ fatal' = fatal
  /\ Idle
  /\ Called
  /\ CommitSegments([state EXCEPT !.segments = Reindex(newSegments)])
  /\ UNCHANGED <<now, advances, mounted, config, service, credential, cache, session,
                 debounce, periodic, inflight, providerCalls, stored,
                 lastFresh, lastCall, lastAnswer, lastSave, persisted>>

\* SegmentsPanel.handleDragEnd: `active` is dragged over `over` (zero-based
\* positions in the rendered segments; over = -1 when findIndex finds none).
HandleDragEnd(active, over) ==
  /\ active # over
  /\ ReorderSegments(ArrayMove(state.segments, active, over))

ClearError ==
  /\ lastOp' = "clearError"
  /\ lastArg' = <<>>
  /\ before' = state
  /\ completion' = Returned(<<>>)
  /\ fatal' = fatal
  /\ Idle
  /\ Called
  /\ CommitFields([state EXCEPT !.error = <<>>])
  /\ UNCHANGED <<now, advances, mounted, config, service, credential, cache, session,
                 debounce, periodic, inflight, providerCalls, stored,
                 lastFresh, lastCall, lastAnswer, lastSave, persisted>>

\* -------------------------------------------------------- AI operations
\* The provider takes another request.
ProviderAccepts ==
  /\ Len(inflight) < MaxInflight
  /\ providerCalls < MaxProviderCalls

\* The parameters breakPromptIntoSegments sends with its request, by model
\* (temperature in tenths).
BreakParams(model) ==
  IF model = "gpt-5-mini"
  THEN [model |-> model, temperature |-> 10]
  ELSE [model |-> model, temperature |-> 3, max_tokens |-> 16000]

\* The parameters makeConcise sends with its request, by model.
ConciseParams(model) ==
  IF model = "gpt-5-mini"
  THEN [model |-> model, temperature |-> 10, max_completion_tokens |-> 2000]
  ELSE [model |-> model, temperature |-> 2, max_tokens |-> 2000]

\* A request that is sent to the provider a second time.
CreateTwice(request) ==
  /\ inflight' = Append(inflight, request)
  /\ providerCalls' = providerCalls + 2

\* client.chat.completions.create(request): one request goes to the provider.
Create(request) ==
  /\ inflight' = Append(inflight, request)
  /\ providerCalls' = providerCalls + 1

\* The record of a call of the service, kept for the properties.
CallRecord(op, input, key, read, hit) ==
  [op |-> op, input |-> input, key |-> key, at |-> now,
   entry |-> EntryAt(cache, key),
   after |-> EntryAt(read.storage, key),
   read |-> read.data,
   stored |-> IF key \in DOMAIN stored THEN <<stored[key]>> ELSE <<>>,
   fresh |-> IF input \in DOMAIN lastFresh THEN <<lastFresh[input]>> ELSE <<>>,
   hit |-> hit,
   sent |-> providerCalls' - providerCalls,
   result |-> IF hit THEN <<FromJson(read.data[1])>> ELSE <<>>]

\* usePromptEditor.breakPromptIntoSegments up to the provider request: the
\* guard, the loading state, and the service's cache lookup.  On a hit the
\* awaited promise is already resolved and the continuation installs the
\* cached segments before any other task runs.
BreakPromptIntoSegments ==
  /\ lastOp' = "breakPromptIntoSegments"
  /\ lastArg' = <<>>
  /\ before' = state
  /\ completion' = Returned(<<>>)
  /\ fatal' = fatal
  /\ Idle
  /\ Called
  /\ IF Trim(state.originalPrompt) = <<>> \/ service = <<>>
     THEN UNCHANGED <<now, advances, mounted, state, config, service, credential, fx,
                     cache, session, debounce, periodic, inflight,
                     providerCalls, stored, lastFresh, lastCall, lastAnswer,
                     lastSave, persisted, nonEmptySince, lastChangeAt>>
     ELSE LET prompt == state.originalPrompt
              key == GenerateCacheKey("break-segments", prompt)
              read == GetCachedResult(cache, key, now)
              hit == BreakHit(read.data)
          IN /\ cache' = read.storage
             /\ IF hit
                THEN /\ CommitSegments([state EXCEPT
                                          !.segments = FromJson(read.data[1]),
                                          !.isLoading = FALSE,
                                          !.error = <<>>])
                     /\ UNCHANGED <<inflight, providerCalls>>
                ELSE /\ ProviderAccepts
                     /\ CommitFields([state EXCEPT !.isLoading = TRUE,
                                                   !.error = <<>>])
                     /\ Create([op |-> "break", input |-> prompt,
                                 key |-> key,
                                 params |-> BreakParams(service[1])])
             /\ lastCall' = <<CallRecord("break", prompt, key, read, hit)>>
             /\ UNCHANGED <<now, advances, mounted, config, service, credential, session,
                            debounce, periodic, stored, lastFresh, lastAnswer,
                            lastSave, persisted>>

\* A catch block that shows the error and leaves the store loading.
FailedStaysLoading(st, message) ==
  [st EXCEPT !.error = message]

\* A catch block that also drops the segments of the store.
FailedDropsSegments(st, message) ==
  [st EXCEPT !.isLoading = FALSE, !.error = message, !.segments = <<>>]

\* A catch block that keeps the error the store already shows.
FailedKeepsFirst(st, message) ==
  [st EXCEPT !.isLoading = FALSE,
             !.error = IF @ = <<>> THEN message ELSE @]

\* The setState of the catch block of breakPromptIntoSegments and of
\* makeConcise: the message of the Error caught becomes the error.
Failed(st, message) ==
  [st EXCEPT !.isLoading = FALSE, !.error = message]

\* breakPromptIntoSegments that drops the segments of a request whose prompt
\* is no longer the prompt of the store.
AnswerBreakIfCurrent(i, answer, writeOk) ==
  /\ lastOp' = "answerBreak"
  /\ lastArg' = <<>>
  /\ before' = state
  /\ completion' = Returned(<<>>)
  /\ fatal' = fatal
  /\ Idle
  /\ i \in 1..Len(inflight)
  /\ inflight[i].op = "break"
  /\ LET req == inflight[i]
         res == ServiceBreak(answer, now)
     IN /\ inflight' = RemoveAt(inflight, i)
        /\ lastAnswer' = <<[op |-> "break", answer |-> answer, ok |-> res.ok,
                            message |-> IF res.ok THEN <<>> ELSE res.message]>>
        /\ IF res.ok
           THEN /\ cache' = SetCachedResult(cache, req.key,
                                            SegmentsToJson(res.value),
                                            now, writeOk)
                /\ stored' = IF writeOk
                             THEN SetItem(stored, req.key,
                                          [data |-> res.value,
                                           at |-> now, input |-> req.input])
                             ELSE stored
                /\ lastFresh' = SetItem(lastFresh, req.input,
                                        [result |-> res.value, at |-> now,
                                         written |-> writeOk])
                /\ CommitSegments([state EXCEPT
                        !.segments = IF req.input = state.originalPrompt
                                     THEN res.value ELSE @,
                        !.isLoading = FALSE])
           ELSE /\ writeOk
                /\ CommitFields(Failed(state, res.message))
                /\ UNCHANGED <<cache, stored, lastFresh>>
  /\ UNCHANGED <<calls, now, advances, mounted, config, service, credential, session, debounce,
                 periodic, providerCalls, lastCall, lastSave, persisted>>

\* The provider answers the segmentize request at position i; writeOk tells
\* whether the cache write of a successful result goes through.
AnswerBreak(i, answer, writeOk) ==
  /\ lastOp' = "answerBreak"
  /\ lastArg' = <<>>
  /\ before' = state
  /\ completion' = Returned(<<>>)
  /\ fatal' = fatal
  /\ Idle
  /\ i \in 1..Len(inflight)
  /\ inflight[i].op = "break"
  /\ LET req == inflight[i]
         res == ServiceBreak(answer, now)
     IN /\ inflight' = RemoveAt(inflight, i)
        /\ lastAnswer' = <<[op |-> "break", answer |-> answer, ok |-> res.ok,
                            message |-> IF res.ok THEN <<>> ELSE res.message]>>
        /\ IF res.ok
           THEN /\ cache' = SetCachedResult(cache, req.key,
                                            SegmentsToJson(res.value),
                                            now, writeOk)
                /\ stored' = IF writeOk
                             THEN SetItem(stored, req.key,
                                          [data |-> res.value,
                                           at |-> now, input |-> req.input])
                             ELSE stored
                /\ lastFresh' = SetItem(lastFresh, req.input,
                                        [result |-> res.value, at |-> now,
                                         written |-> writeOk])
                /\ CommitSegments([state EXCEPT !.segments = res.value,
                                                !.isLoading = FALSE])
           ELSE /\ writeOk
                /\ CommitFields(Failed(state, res.message))
                /\ UNCHANGED <<cache, stored, lastFresh>>
  /\ UNCHANGED <<calls, now, advances, mounted, config, service, credential, session, debounce,
                 periodic, providerCalls, lastCall, lastSave, persisted>>

\* A find that falls back on the first segment when no id matches.
FindSegmentOrFirst(segments, segmentId) ==
  LET hits == {i \in 1..Len(segments) : segments[i].id = segmentId}
  IN IF segments = <<>> THEN <<>>
     ELSE IF hits = {} THEN <<segments[1]>>
     ELSE <<segments[CHOOSE i \in hits : \A j \in hits : i <= j]>>

\* state.segments.find(s => s.id === segmentId), as an optional value
FindSegment(segments, segmentId) ==
  LET hits == {i \in 1..Len(segments) : segments[i].id = segmentId}
  IN IF hits = {} THEN <<>>
     ELSE <<segments[CHOOSE i \in hits : \A j \in hits : i <= j]>>

\* usePromptEditor.makeConcise up to the provider request.
MakeConcise(segmentId) ==
  /\ lastOp' = "makeConcise"
  /\ lastArg' = <<segmentId>>
  /\ before' = state
  /\ completion' = Returned(<<>>)
  /\ fatal' = fatal
  /\ Idle
  /\ Called
  /\ LET found == FindSegment(state.segments, segmentId) IN
     IF found = <<>> \/ service = <<>>
     THEN UNCHANGED <<now, advances, mounted, state, config, service, credential, fx,
                     cache, session, debounce, periodic, inflight,
                     providerCalls, stored, lastFresh, lastCall, lastAnswer,
                     lastSave, persisted, nonEmptySince, lastChangeAt>>
     ELSE LET content == found[1].content
              key == GenerateCacheKey("make-concise", content)
              read == GetCachedResult(cache, key, now)
              hit == ConciseHit(read.data)
          IN /\ cache' = read.storage
             /\ IF hit
                THEN /\ CommitSegments([state EXCEPT
                          !.segments = MapUpdate(@, segmentId,
                                          [content |-> FromJson(read.data[1])]),
                          !.isLoading = FALSE,
                          !.error = <<>>])
                     /\ UNCHANGED <<inflight, providerCalls>>
                ELSE /\ ProviderAccepts
                     /\ CommitFields([state EXCEPT !.isLoading = TRUE,
                                                   !.error = <<>>])
                     /\ Create([op |-> "concise", input |-> content,
                                 key |-> key, segmentId |-> segmentId,
                                 params |-> ConciseParams(service[1])])
             /\ lastCall' = <<CallRecord("concise", content, key, read, hit)>>
             /\ UNCHANGED <<now, advances, mounted, config, service, credential, session,
                            debounce, periodic, stored, lastFresh, lastAnswer,
                            lastSave, persisted>>

\* makeConcise that drops the result when the content of the segment is no
\* longer the content it sent.
AnswerConciseIfUnchanged(i, answer, writeOk) ==
  /\ lastOp' = "answerConcise"
  /\ lastArg' = <<>>
  /\ before' = state
  /\ completion' = Returned(<<>>)
  /\ fatal' = fatal
  /\ Idle
  /\ i \in 1..Len(inflight)
  /\ inflight[i].op = "concise"
  /\ LET req == inflight[i]
         res == ServiceConcise(answer)
     IN /\ inflight' = RemoveAt(inflight, i)
        /\ lastAnswer' = <<[op |-> "concise", answer |-> answer, ok |-> res.ok,
                            message |-> IF res.ok THEN <<>> ELSE res.message]>>
        /\ IF res.ok
           THEN /\ cache' = SetCachedResult(cache, req.key,
                                            JsonString(res.value),
                                            now, writeOk)
                /\ stored' = IF writeOk
                             THEN SetItem(stored, req.key,
                                          [data |-> res.value,
                                           at |-> now, input |-> req.input])
                             ELSE stored
                /\ CommitSegments([state EXCEPT
                          !.segments =
                             [k \in 1..Len(@) |->
                                IF @[k].id = req.segmentId
                                   /\ @[k].content = req.input
                                THEN Merge(@[k], [content |-> res.value])
                                ELSE @[k]],
                          !.isLoading = FALSE])
           ELSE /\ writeOk
                /\ CommitFields(Failed(state, res.message))
                /\ UNCHANGED <<cache, stored>>
  /\ UNCHANGED <<calls, now, advances, mounted, config, service, credential, session, debounce,
                 periodic, providerCalls, lastFresh, lastCall, lastSave, persisted>>

\* The provider answers the condense request at position i.
AnswerConcise(i, answer, writeOk) ==
  /\ lastOp' = "answerConcise"
  /\ lastArg' = <<>>
  /\ before' = state
  /\ completion' = Returned(<<>>)
  /\ fatal' = fatal
  /\ Idle
  /\ i \in 1..Len(inflight)
  /\ inflight[i].op = "concise"
  /\ LET req == inflight[i]
         res == ServiceConcise(answer)
     IN /\ inflight' = RemoveAt(inflight, i)
        /\ lastAnswer' = <<[op |-> "concise", answer |-> answer, ok |-> res.ok,
                            message |-> IF res.ok THEN <<>> ELSE res.message]>>
        /\ IF res.ok
           THEN /\ cache' = SetCachedResult(cache, req.key,
                                            JsonString(res.value),
                                            now, writeOk)
                /\ stored' = IF writeOk
                             THEN SetItem(stored, req.key,
                                          [data |-> res.value,
                                           at |-> now, input |-> req.input])
                             ELSE stored
                /\ CommitSegments([state EXCEPT
                          !.segments = MapUpdate(@, req.segmentId,
                                                 [content |-> res.value]),
                          !.isLoading = FALSE])
           ELSE /\ writeOk
                /\ CommitFields(Failed(state, res.message))
                /\ UNCHANGED <<cache, stored>>
  /\ UNCHANGED <<calls, now, advances, mounted, config, service, credential, session, debounce,
                 periodic, providerCalls, lastFresh, lastCall, lastSave, persisted>>

\* ---------------------------------------------------------- persistence
\* The state loadSession installs from the stored text, or <<>> when it
\* returns false.
LoadedState(st, item) ==
  IF item = <<>> THEN <<>>
  ELSE LET parsed == JsonParse(item[1]) IN
       IF ~parsed.ok THEN <<>>
       ELSE LET saved == parsed.value.v IN
            <<[st EXCEPT
                 !.originalPrompt =
                    IF "originalPrompt" \in DOMAIN saved
                       /\ Truthy(saved.originalPrompt)
                    THEN FromJson(saved.originalPrompt) ELSE <<>>,
                 !.segments =
                    IF "segments" \in DOMAIN saved /\ Truthy(saved.segments)
                    THEN FromJson(saved.segments) ELSE <<>>,
                 !.error = <<>>]>>

\* The render of a state whose segments value has no filter method (App's
\* state.segments.filter) throws a TypeError; no error boundary catches it.
RenderThrows(item) ==
  /\ item # <<>>
  /\ JsonParse(item[1]).ok
  /\ LET saved == JsonParse(item[1]).value.v IN
       /\ "segments" \in DOMAIN saved
       /\ Truthy(saved.segments)
       /\ ~IsArray(saved.segments)

\* React unmounts the tree after the render of the state that loadSession
\* set threw: the cleanups of the effects clear the timers, and the state
\* last rendered is the state before.
Unmounted(item) ==
  /\ fatal' = <<[error |-> ErrType,
                 segments |-> JsonParse(item[1]).value.v.segments]>>
  /\ fx' = FALSE
  /\ debounce' = <<>>
  /\ periodic' = <<>>
  /\ UNCHANGED <<nonEmptySince, lastChangeAt>>

LoadSession ==
  /\ lastOp' = "loadSession"
  /\ lastArg' = <<>>
  /\ before' = state
  /\ Idle
  /\ Called
  /\ completion' = Returned(<<LoadedState(state, session) # <<>> >>)
  /\ IF LoadedState(state, session) = <<>>
     THEN UNCHANGED <<state, fx, nonEmptySince, lastChangeAt, debounce,
                     periodic, fatal>>
     ELSE IF RenderThrows(session)
     THEN /\ Unmounted(session)
          /\ UNCHANGED state
     ELSE /\ CommitSegments(LoadedState(state, session)[1])
          /\ UNCHANGED <<debounce, periodic, fatal>>
  /\ UNCHANGED <<now, advances, mounted, config, service, credential, cache, session,
                 inflight, providerCalls, stored,
                 lastFresh, lastCall, lastAnswer, lastSave, persisted>>

\* saveSession that writes under a key loadSession does not read.
SaveSessionOtherKey(snap, writeOk) ==
  /\ session' = session
  /\ lastSave' = <<[at |-> now, snap |-> snap, written |-> writeOk]>>
  /\ persisted' = IF writeOk THEN <<snap>> ELSE persisted
  /\ completion' = IF writeOk THEN Returned(<<>>) ELSE Thrown(ErrQuota)

\* saveSession that writes only while the key holds nothing.
SaveSessionFirstWins(snap, writeOk) ==
  /\ session' = IF writeOk /\ session = <<>> THEN <<SessionText(snap, now)>> ELSE session
  /\ lastSave' = <<[at |-> now, snap |-> snap, written |-> writeOk]>>
  /\ persisted' = IF writeOk THEN <<snap>> ELSE persisted
  /\ completion' = IF writeOk THEN Returned(<<>>) ELSE Thrown(ErrQuota)

\* saveSession of the closure `snap`; writeOk is FALSE when setItem throws,
\* and nothing between setItem and the timer that called saveSession catches.
SaveSession(snap, writeOk) ==
  /\ session' = IF writeOk THEN <<SessionText(snap, now)>> ELSE session
  /\ lastSave' = <<[at |-> now, snap |-> snap, written |-> writeOk]>>
  /\ persisted' = IF writeOk THEN <<snap>> ELSE persisted
  /\ completion' = IF writeOk THEN Returned(<<>>) ELSE Thrown(ErrQuota)

\* A timer created at `time` by a render whose saveSession closes over
\* `snap`.
Timer(time, delay, snap) == [deadline |-> time + delay, snap |-> snap]

\* The effects of the first render.  ApiKeyManager hands a saved credential
\* to setConfig, whose effect initializes the service.  App's effects run
\* updateFinalOutput, set the interval, call loadSession, and find no
\* segments for the debounce timeout.
Mount ==
  /\ lastOp' = "mount"
  /\ lastArg' = <<>>
  /\ before' = state
  /\ ~mounted
  /\ mounted' = TRUE
  /\ config' = credential
  /\ service' = credential
  /\ completion' = Returned(<<LoadedState(state, session) # <<>> >>)
  /\ LET computed == [state EXCEPT !.finalOutput = ComputeOutput(state.segments)]
     IN IF LoadedState(computed, session) = <<>>
        THEN /\ CommitFields(computed)
             /\ periodic' = <<Timer(now, PeriodicMs, Snapshot(state))>>
             /\ debounce' = <<>>
             /\ fatal' = fatal
        ELSE IF RenderThrows(session)
        THEN /\ Unmounted(session)
             /\ state' = computed
        ELSE /\ CommitSegments(LoadedState(computed, session)[1])
             /\ periodic' = <<Timer(now, PeriodicMs, Snapshot(state))>>
             /\ debounce' = <<>>
             /\ fatal' = fatal
  /\ UNCHANGED <<calls, now, advances, credential, cache, session, inflight,
                 providerCalls, stored, lastFresh, lastCall, lastAnswer,
                 lastSave, persisted>>

\* The effects with a debounce effect that leaves a pending timeout running.
FlushEffectsKeepTimeout ==
  /\ lastOp' = "flushEffects"
  /\ lastArg' = <<>>
  /\ before' = state
  /\ completion' = Returned(<<>>)
  /\ fatal' = fatal
  /\ mounted
  /\ fx
  /\ fx' = FALSE
  /\ state' = [state EXCEPT !.finalOutput = ComputeOutput(state.segments)]
  /\ periodic' = <<Timer(now, PeriodicMs, Snapshot(state))>>
  /\ debounce' = IF Len(state.segments) > 0
                 THEN IF debounce # <<>> THEN debounce
                      ELSE <<Timer(now, DebounceMs, Snapshot(state))>>
                 ELSE <<>>
  /\ UNCHANGED <<calls, now, advances, mounted, config, service, credential, cache, session,
                 inflight, providerCalls, stored, lastFresh, lastCall,
                 lastAnswer, lastSave, persisted, nonEmptySince, lastChangeAt>>

\* The passive effects of a commit that changed state.segments: the output
\* is recomputed, the interval is cleared and set again, the pending
\* timeout is cleared and, with segments present, set again.
FlushEffects ==
  /\ lastOp' = "flushEffects"
  /\ lastArg' = <<>>
  /\ before' = state
  /\ completion' = Returned(<<>>)
  /\ fatal' = fatal
  /\ mounted
  /\ fx
  /\ fx' = FALSE
  /\ state' = [state EXCEPT !.finalOutput = ComputeOutput(state.segments)]
  /\ periodic' = <<Timer(now, PeriodicMs, Snapshot(state))>>
  /\ debounce' = IF Len(state.segments) > 0
                 THEN <<Timer(now, DebounceMs, Snapshot(state))>>
                 ELSE <<>>
  /\ UNCHANGED <<calls, now, advances, mounted, config, service, credential, cache, session,
                 inflight, providerCalls, stored, lastFresh, lastCall,
                 lastAnswer, lastSave, persisted, nonEmptySince, lastChangeAt>>

\* The timeout of the debounce effect fires.
DebounceFire(writeOk) ==
  /\ lastOp' = "debounce"
  /\ lastArg' = <<>>
  /\ before' = state
  /\ fatal' = fatal
  /\ mounted
  /\ debounce # <<>>
  /\ debounce[1].deadline = now
  /\ SaveSession(debounce[1].snap, writeOk)
  /\ debounce' = <<>>
  /\ UNCHANGED <<calls, now, advances, mounted, state, config, service, credential, fx, cache,
                 periodic, inflight, providerCalls, stored, lastFresh,
                 lastCall, lastAnswer, nonEmptySince, lastChangeAt>>

\* An interval whose callback saves whatever its closure holds.
SavesAlways(timer) == TRUE

\* The interval's callback does nothing when its closure holds no segments.
Saves(timer) == Len(timer.snap.segments) > 0

\* The interval of the periodic effect fires.
PeriodicFire(writeOk) ==
  /\ lastOp' = "periodic"
  /\ lastArg' = <<>>
  /\ before' = state
  /\ fatal' = fatal
  /\ mounted
  /\ periodic # <<>>
  /\ periodic[1].deadline = now
  /\ Saves(periodic[1])
  /\ SaveSession(periodic[1].snap, writeOk)
  /\ periodic' = <<[periodic[1] EXCEPT !.deadline = now + PeriodicMs]>>
  /\ UNCHANGED <<calls, now, advances, mounted, state, config, service, credential, fx, cache,
                 debounce, inflight, providerCalls, stored, lastFresh,
                 lastCall, lastAnswer, nonEmptySince, lastChangeAt>>

\* ------------------------------------------------------------------ time
\* The times at which a timer will write the session.
Deadlines ==
  {debounce[i].deadline : i \in 1..Len(debounce)}
  \cup {periodic[i].deadline : i \in {j \in 1..Len(periodic) : Saves(periodic[j])}}

\* The times at which a cache entry reaches the age of the TTL.
Expiries ==
  {JsonParse(cache[k]).value.v.timestamp.v + CacheTtlMs :
     k \in {j \in DOMAIN cache : JsonParse(cache[j]).ok}}

\* The interval after the clock reached `time`: an interval whose callback
\* does nothing has run (unobservably) at each deadline passed.
RollInterval(timers, time) ==
  [i \in 1..Len(timers) |->
     IF ~Saves(timers[i]) /\ timers[i].deadline <= time
     THEN [timers[i] EXCEPT
             !.deadline = @ + PeriodicMs * (((time - @) \div PeriodicMs) + 1)]
     ELSE timers[i]]

\* Time passes by d ms: no timer is due earlier, and the effects of the last
\* commit have run.
Advance(d) ==
  /\ lastOp' = "advance"
  /\ lastArg' = <<>>
  /\ before' = state
  /\ completion' = Returned(<<>>)
  /\ fatal' = fatal
  /\ Idle
  /\ \A t \in Deadlines : now + d <= t
  /\ now' = now + d
  /\ advances' = IF advances < MaxAdvances THEN advances + 1 ELSE advances
  /\ periodic' = RollInterval(periodic, now + d)
  /\ UNCHANGED <<calls, mounted, state, config, service, credential, fx, cache, session,
                 debounce, inflight, providerCalls, stored, lastFresh,
                 lastCall, lastAnswer, lastSave, persisted, nonEmptySince, lastChangeAt>>

\* ------------------------------------------------------- specifications
Credentials == {<<>>} \cup {<<m>> : m \in Models}

\* The store and the AI operations, at one instant: no timer fires.
Next ==
  \/ Mount
  \/ FlushEffects
  \/ /\ calls < MaxCalls
     /\ \/ \E c \in Credentials : SetConfig(c)
        \/ \E p \in Prompts : SetOriginalPrompt(p)
        \/ \E i \in 1..Len(state.segments) :
             \E u \in UpdateChoices(state.segments[i]) :
               UpdateSegment(state.segments[i].id, u)
        \/ \E u \in StaleUpdates : UpdateSegment(StaleId, u)
        \/ \E a \in 0..(Len(state.segments) - 1) :
             \E o \in -1..(Len(state.segments) - 1) : HandleDragEnd(a, o)
        \/ ClearError
        \/ BreakPromptIntoSegments
        \/ \E i \in 1..Len(state.segments) :
             MakeConcise(state.segments[i].id)
        \/ MakeConcise(StaleId)
        \/ LoadSession
  \/ \E i \in 1..Len(inflight) :
       \E a \in BreakAnswers : \E w \in BOOLEAN : AnswerBreak(i, a, w)
  \/ \E i \in 1..Len(inflight) :
       \E a \in ConciseAnswers : \E w \in BOOLEAN : AnswerConcise(i, a, w)

Spec == Init /\ [][Next]_vars

\* The provider answers a request that is outstanding.
Answer ==
  \/ \E i \in 1..Len(inflight) :
       \E a \in BreakAnswers : \E w \in BOOLEAN : AnswerBreak(i, a, w)
  \/ \E i \in 1..Len(inflight) :
       \E a \in ConciseAnswers : \E w \in BOOLEAN : AnswerConcise(i, a, w)

\* The same program with a provider that answers every request: React runs
\* the effects of every commit, and the continuation of an awaited request
\* runs once the request is answered, however often other updates come
\* between.
SpecAnswered ==
  /\ Init
  /\ [][Next]_vars
  /\ WF_vars(FlushEffects)
  /\ SF_vars(Answer)

\* The cache of the AI service over time: prompts whose keys collide, every
\* provider answer, cache writes that fail, and the clock moving to the expiry
\* of an entry or 1 ms before it.  Advance lets no pending save pass, so the
\* clock moves while the store holds no segments.
ExpirySteps ==
  {d \in {t - now : t \in Expiries} \cup {t - now - 1 : t \in Expiries} :
     d >= 1}

NextCache ==
  \/ Mount
  \/ FlushEffects
  \/ /\ calls < MaxCalls
     /\ \/ \E p \in {PromptAa, PromptBB} : SetOriginalPrompt(p)
        \/ BreakPromptIntoSegments
        \/ \E i \in 1..Len(state.segments) :
             MakeConcise(state.segments[i].id)
  \/ \E i \in 1..Len(inflight) :
       \E a \in BreakAnswers : \E w \in BOOLEAN : AnswerBreak(i, a, w)
  \/ \E i \in 1..Len(inflight) :
       \E a \in ConciseAnswers : \E w \in BOOLEAN : AnswerConcise(i, a, w)
  \/ /\ advances < MaxAdvances
     /\ \E d \in ExpirySteps : Advance(d)

SpecCache == Init /\ [][NextCache]_vars

\* Auto-save over time: changes of the segments and the prompt, the two
\* timers, storage writes that fail, and the clock moving to the next
\* deadline, by the debounce delay, or by 1 ms less.
AutosaveSteps ==
  {d \in {DebounceMs - 1, DebounceMs} \cup {t - now : t \in Deadlines} :
     d >= 1}

NextAutosave ==
  \/ Mount
  \/ FlushEffects
  \/ /\ calls < MaxCalls
     /\ \/ SetOriginalPrompt(PromptBB)
        \/ \E i \in 1..Len(state.segments) :
             UpdateSegment(state.segments[i].id,
                           [isIncluded |-> ~state.segments[i].isIncluded])
        \/ LoadSession
  \/ \E w \in BOOLEAN : DebounceFire(w)
  \/ \E w \in BOOLEAN : PeriodicFire(w)
  \/ /\ advances < MaxAdvances
     /\ \E d \in AutosaveSteps : Advance(d)

SpecAutosave == Init /\ [][NextAutosave]_vars

\* A long editing session: the user keeps toggling the first segment, the
\* storage takes every write, and the clock moves to the next deadline or by
\* 1 ms less than the debounce delay.
BusySteps ==
  {d \in {DebounceMs - 1} \cup {t - now : t \in Deadlines} : d >= 1}

NextBusy ==
  \/ Mount
  \/ FlushEffects
  \/ /\ Len(state.segments) > 0
     /\ UpdateSegment(state.segments[1].id,
                      [isIncluded |-> ~state.segments[1].isIncluded])
  \/ DebounceFire(TRUE)
  \/ PeriodicFire(TRUE)
  \/ /\ now < BusyHorizon
     /\ \E d \in BusySteps : Advance(d)

SpecBusy == Init /\ [][NextBusy]_vars

\* Storage that fails, at one instant: localStorage is shared with whatever
\* else wrote under the program's keys, so the program may start on a record
\* that is no JSON text, or on a session that parses to a value of another
\* shape; and any cache write may fail on the quota.
NotJson == [text |-> "{"]

\* A cache holding an unreadable record under the key of segmentize("Aa").
DamagedCache ==
  SetItem(<<>>, GenerateCacheKey("break-segments", PromptAa), NotJson)

\* A session record that is no JSON, and one whose segments is the string "x".
DamagedSessions ==
  { <<NotJson>>,
    <<JsonStringify(JsonObject([originalPrompt |-> JsonString(PromptBB),
                                segments |-> JsonString(<<120>>),
                                timestamp |-> JsonNumber(PreviousRun)]))>> }

InitStorage ==
  /\ now = 0
  /\ advances = 0
  /\ calls = 0
  /\ mounted = FALSE
  /\ state = InitialState
  /\ config = <<>>
  /\ service = <<>>
  /\ credential \in Credentials
  /\ fx = FALSE
  /\ cache \in {<<>>, DamagedCache}
  /\ session \in InitialSessions \cup DamagedSessions
  /\ debounce = <<>>
  /\ periodic = <<>>
  /\ inflight = <<>>
  /\ providerCalls = 0
  /\ stored = <<>>
  /\ lastFresh = <<>>
  /\ lastCall = <<>>
  /\ lastAnswer = <<>>
  /\ lastSave = <<>>
  /\ persisted = <<>>
  /\ lastOp = "init"
  /\ nonEmptySince = <<>>
  /\ lastChangeAt = <<>>
  /\ before = InitialState
  /\ completion = Returned(<<>>)
  /\ fatal = <<>>
  /\ lastArg = <<>>

NextStorage ==
  \/ Mount
  \/ FlushEffects
  \/ /\ calls < MaxCalls
     /\ \/ SetOriginalPrompt(PromptAa)
        \/ BreakPromptIntoSegments
        \/ \E i \in 1..Len(state.segments) :
             MakeConcise(state.segments[i].id)
        \/ LoadSession
  \/ \E i \in 1..Len(inflight) :
       \E a \in BreakAnswers : \E w \in BOOLEAN : AnswerBreak(i, a, w)
  \/ \E i \in 1..Len(inflight) :
       \E a \in ConciseAnswers : \E w \in BOOLEAN : AnswerConcise(i, a, w)

SpecStorage == InitStorage /\ [][NextStorage]_vars

\* ---------------------------------------------------------- properties
\* The positions in `pending` by ascending order value, equal values by
\* position.
RECURSIVE Ascending(_, _)
Ascending(segments, pending) ==
  IF pending = {} THEN <<>>
  ELSE LET first == CHOOSE i \in pending : \A j \in pending :
                      \/ segments[i].order < segments[j].order
                      \/ segments[i].order = segments[j].order /\ i <= j
       IN <<first>> \o Ascending(segments, pending \ {first})

\* The content of the included segments in ascending order, joined by a
\* blank line.
IncludedContent(segments) ==
  LET at == Ascending(segments,
                      {i \in 1..Len(segments) : segments[i].isIncluded})
  IN Join([k \in 1..Len(at) |-> segments[at[k]].content], BlankLine)

\* C1: once the recomputation that the last change of the segments triggered
\* has run, finalOutput is the content of exactly the included segments, in
\* ascending order, joined by a blank line (the empty string when no segment
\* is included).
C1_OutputOfIncluded ==
  ~fx => state.finalOutput = IncludedContent(state.segments)

\* C1 witness: the segments were reordered, the one now first was edited, the
\* other one was excluded, and the recomputed output is the edited content.
C1_Witness ==
  /\ ~fx
  /\ Len(state.segments) = 2
  /\ state.segments[1].id[2] = 1
  /\ state.segments[1].content = EditedContent
  /\ state.segments[1].isIncluded
  /\ ~state.segments[2].isIncluded
  /\ state.finalOutput = EditedContent

\* C2: no committed state holds segments together with a finalOutput that
\* was computed from other segments: in every state a render, an export or a
\* save can observe, finalOutput is the output of the current segments.
C2_NoStaleOutput ==
  mounted => state.finalOutput = IncludedContent(state.segments)

\* C3: the order values of the segments are exactly 0..N-1 and every
\* segment's order is its position in the sequence.
C3_OrderIsPosition ==
  \A i \in 1..Len(state.segments) : state.segments[i].order = i - 1

\* C3 witness: the segment created second was dragged to the first position
\* and an update was applied to it.
C3_Witness ==
  /\ Len(state.segments) = 2
  /\ state.segments[1].id[2] = 1
  /\ state.segments[1].order = 0
  /\ state.segments[2].order = 1
  /\ state.segments[1].content = EditedContent

\* C4: a read of a key under which the cache stored a payload returns that
\* payload and leaves the entry as it is while less than the TTL has passed
\* since the store; from the TTL on the read misses and removes the entry.
C4_ReadWithinTtl ==
  \A i \in 1..Len(lastCall) :
    LET c == lastCall[i] IN
    c.stored # <<>> =>
      IF c.at - c.stored[1].at < CacheTtlMs
      THEN /\ c.read # <<>>
           /\ FromJson(c.read[1]) = c.stored[1].data
           /\ c.after = c.entry
           /\ c.after # <<>>
           /\ c.after[1].timestamp.v = c.stored[1].at
      ELSE /\ c.read = <<>>
           /\ c.after = <<>>

\* C4 witness: a read exactly at the TTL found the entry in storage, missed
\* and removed it.
C4_Witness ==
  /\ lastCall # <<>>
  /\ lastCall[1].stored # <<>>
  /\ lastCall[1].at - lastCall[1].stored[1].at = CacheTtlMs
  /\ lastCall[1].entry # <<>>
  /\ lastCall[1].read = <<>>
  /\ lastCall[1].after = <<>>

\* C5 as claimed: a segmentize call that starts after a call with the same
\* prompt was answered by the provider, and less than the TTL later, is
\* served from the cache with the same segment list and sends no request.
C5_SecondFromCache ==
  \A i \in 1..Len(lastCall) :
    LET c == lastCall[i] IN
    (c.op = "break" /\ c.fresh # <<>> /\ c.at - c.fresh[1].at < CacheTtlMs)
      => (c.hit /\ c.sent = 0 /\ c.result = <<c.fresh[1].result>>)

\* C5 amended: the same, provided the cache write of the first call went
\* through and its entry is still the one stored under the key.
C5_SecondFromCacheIfWritten ==
  \A i \in 1..Len(lastCall) :
    LET c == lastCall[i] IN
    (/\ c.op = "break"
     /\ c.fresh # <<>>
     /\ c.fresh[1].written
     /\ c.stored # <<>>
     /\ c.stored[1].input = c.input
     /\ c.stored[1].at = c.fresh[1].at
     /\ c.at - c.fresh[1].at < CacheTtlMs)
      => (c.hit /\ c.sent = 0 /\ c.result = <<c.fresh[1].result>>)

\* C5 witness: a second segmentize of the same prompt, 1 ms before the TTL,
\* returned the two segments of the first without a request.
C5_Witness ==
  /\ lastCall # <<>>
  /\ lastCall[1].op = "break"
  /\ lastCall[1].fresh # <<>>
  /\ lastCall[1].fresh[1].written
  /\ lastCall[1].at - lastCall[1].fresh[1].at = CacheTtlMs - 1
  /\ lastCall[1].hit
  /\ lastCall[1].sent = 0
  /\ lastCall[1].result = <<lastCall[1].fresh[1].result>>

\* C6: a call of segmentize or condense that finds an unexpired entry for its
\* operation and input returns the entry's payload and sends no request,
\* whatever the payload (an empty list and an empty text included).
C6_HitOnEveryPayload ==
  \A i \in 1..Len(lastCall) :
    LET c == lastCall[i] IN
    (c.entry # <<>> /\ c.at - c.entry[1].timestamp.v < CacheTtlMs)
      => (c.hit /\ c.sent = 0 /\ c.result = <<FromJson(c.entry[1].data)>>)

\* C7: an answer of the provider flagged as cut at the length limit becomes
\* the Truncated failure, for segmentize and for condense: never a success
\* and never the no-response failure.
C7_TruncatedFailure ==
  \A i \in 1..Len(lastAnswer) :
    LET a == lastAnswer[i] IN
    ("finish" \in DOMAIN a.answer /\ a.answer.finish = "length")
      => (~a.ok /\ a.message[2] = ErrTruncated)

\* What loadSession would install from the session key, as an optional
\* snapshot.
PersistedSnapshot ==
  IF LoadedState(InitialState, session) = <<>> THEN <<>>
  ELSE <<Snapshot(LoadedState(InitialState, session)[1])>>

\* The segments a and b agree in id, content, order and isIncluded.
SameSegments(a, b) ==
  /\ Len(a) = Len(b)
  /\ \A i \in 1..Len(a) :
       /\ a[i].id = b[i].id
       /\ a[i].content = b[i].content
       /\ a[i].order = b[i].order
       /\ a[i].isIncluded = b[i].isIncluded

\* C8: loadSession after a saveSession, with no other write to the session
\* key between them, installs the originalPrompt that was saved and the
\* saved segments: the same sequence with the same id, content, order and
\* isIncluded.
C8_SaveThenLoad ==
  (lastOp = "loadSession" /\ persisted # <<>>)
    => /\ state.originalPrompt = persisted[1].originalPrompt
       /\ SameSegments(state.segments, persisted[1].segments)

\* C8 witness: loadSession has brought back a saved session of two segments,
\* the first of them excluded.
C8_Witness ==
  /\ lastOp = "loadSession"
  /\ persisted # <<>>
  /\ state.originalPrompt = PromptAa
  /\ Len(state.segments) = 2
  /\ ~state.segments[1].isIncluded
  /\ state.segments[2].isIncluded

\* The effects of the last change have run, at least `quiet` ms have passed
\* since it, and the timeout that is due by now has fired.
QuietFor(quiet) ==
  /\ lastChangeAt # <<>>
  /\ ~fx
  /\ now - lastChangeAt[1] >= quiet
  /\ \A i \in 1..Len(debounce) : debounce[i].deadline > now

C10_SaveEveryPeriod ==
  (/\ nonEmptySince # <<>>
   /\ now - nonEmptySince[1] >= PeriodicMs
   /\ \A t \in Deadlines : t > now)
    => (lastSave # <<>> /\ now - lastSave[1].at <= PeriodicMs)

\* C11: every setOriginalPrompt(text), whatever the state it is called in,
\* leaves originalPrompt = text, no segments, an empty finalOutput and no
\* error; it leaves isLoading as it was, sends nothing to the provider and
\* neither reads nor writes the cache.
C11_SetOriginalPromptResets ==
  [][\A text \in Prompts :
       SetOriginalPrompt(text) =>
         /\ state'.originalPrompt = text
         /\ state'.segments = <<>>
         /\ state'.finalOutput = <<>>
         /\ state'.error = <<>>
         /\ state'.isLoading = state.isLoading
         /\ providerCalls' = providerCalls
         /\ inflight' = inflight
         /\ lastCall' = lastCall
         /\ cache' = cache]_vars

\* setOriginalPrompt ran while a request was outstanding, on a loading
\* store that held segments and their output.
C11_Witness ==
  /\ lastOp = "setOriginalPrompt"
  /\ before.segments # <<>>
  /\ before.finalOutput # <<>>
  /\ before.isLoading
  /\ inflight # <<>>
  /\ state.originalPrompt = PromptBB
  /\ state.isLoading

\* C12: isLoading is true in every state in which a request of
\* breakPromptIntoSegments or makeConcise is sent and not answered, and false
\* in every state in which none is, also when requests overlap.
C12_LoadingIffOutstanding ==
  state.isLoading <=> inflight # <<>>

\* C13: after breakPromptIntoSegments on a non-blank prompt, or makeConcise
\* on a segment of the store, was requested while the service has never been
\* given a credential, the store's error is the not-initialized failure.
C13_NotInitializedSurfaces ==
  /\ lastOp \in {"breakPromptIntoSegments", "makeConcise"}
  /\ service = <<>>
  /\ lastOp = "breakPromptIntoSegments" => Trim(state.originalPrompt) # <<>>
  /\ lastOp = "makeConcise" => state.segments # <<>>
  => state.error # <<>> /\ state.error[Len(state.error)] = ErrNotInitialized

\* The messages of the failures of the two AI operations, by operation.
FailureMessages(op) ==
  IF op = "break"
  THEN {<<BreakFailed, cause>> :
          cause \in {ErrProvider, ErrNoResponse, ErrTruncated, ErrSyntax,
                     ErrNotArray}}
  ELSE {<<ConciseFailed, cause>> : cause \in {ErrProvider, ErrNoResponse}}

\* C14: when the provider's answer to a request makes the operation fail,
\* the store's error is the one message of that failure, whatever error it
\* showed before: a later failure's message replaces an earlier one's.
C14_FailureIsTheError ==
  /\ lastOp \in {"answerBreak", "answerConcise"}
  /\ ~lastAnswer[1].ok
  => /\ state.error = lastAnswer[1].message
     /\ state.error \in FailureMessages(lastAnswer[1].op)

\* A second request failed while the store showed the different message of
\* the failure of the first.
C14_Witness ==
  /\ lastOp \in {"answerBreak", "answerConcise"}
  /\ ~lastAnswer[1].ok
  /\ before.error # <<>>
  /\ before.error # state.error
  /\ state.error = lastAnswer[1].message

\* C15 (as claimed): a step that takes the error from a message to none is
\* clearError or setOriginalPrompt, and no other operation.
C15_OnlyClearAndSetPrompt ==
  [][state.error # <<>> /\ state'.error = <<>>
       => lastOp' \in {"clearError", "setOriginalPrompt"}]_vars

\* C15: a step that takes the error from a message to none is clearError,
\* setOriginalPrompt, a breakPromptIntoSegments or makeConcise that passed
\* its guard and called the service, or a loadSession that returned true;
\* updateSegment, reorderSegments, setConfig, the provider's answers, the
\* effects, the timers' saveSession and a loadSession that returned false
\* leave a message in place.
C15_ClearedByFiveOperations ==
  [][state.error # <<>> /\ state'.error = <<>>
       => \/ lastOp' \in {"clearError", "setOriginalPrompt"}
          \/ /\ lastOp' \in {"breakPromptIntoSegments", "makeConcise"}
             /\ service # <<>>
             /\ lastCall' # <<>>
             /\ lastCall'[1].op = (IF lastOp' = "makeConcise"
                                   THEN "concise" ELSE "break")
             /\ \/ Len(inflight') = Len(inflight) + 1
                \/ lastCall'[1].hit
          \/ /\ lastOp' = "loadSession"
             /\ completion' = Returned(<<TRUE>>)]_vars

\* A breakPromptIntoSegments that called the service took away the error a
\* failed request had left.
C15_Witness ==
  /\ lastOp = "breakPromptIntoSegments"
  /\ before.error # <<>>
  /\ state.error = <<>>
  /\ lastCall # <<>>
  /\ lastCall[1].sent = 1

\* The record under `key` cannot be read: JSON.parse throws on it.
Unreadable(storage, key) ==
  key \in DOMAIN storage /\ ~JsonParse(storage[key]).ok

\* C16: a storage failure in the cache never reaches the caller of the AI
\* operation.  A read that fails counts as a miss: the request goes to the
\* provider and the store shows no error.  After a write that fails the
\* provider's result is installed as any successful result is: the segments
\* (or the segment's content) are the result, isLoading is false and the
\* error is as it was.
C16_CacheFailureAbsorbed ==
  [][/\ (/\ BreakPromptIntoSegments
         /\ Trim(state.originalPrompt) # <<>>
         /\ service # <<>>
         /\ Unreadable(cache, GenerateCacheKey("break-segments",
                                               state.originalPrompt)))
        => /\ providerCalls' = providerCalls + 1
           /\ Len(inflight') = Len(inflight) + 1
           /\ completion'.kind = "return"
           /\ state'.error = <<>>
           /\ state'.isLoading
     /\ \A i \in 1..Len(inflight) : \A a \in BreakAnswers :
          (a.kind = "json" /\ AnswerBreak(i, a, FALSE))
          => /\ state'.segments = ToPromptSegments(a.value, now)
             /\ state'.error = state.error
             /\ ~state'.isLoading
             /\ completion'.kind = "return"
     /\ \A i \in 1..Len(inflight) : \A a \in ConciseAnswers :
          (a.kind = "text" /\ AnswerConcise(i, a, FALSE))
          => /\ \A k \in 1..Len(state.segments) :
                  state.segments[k].id = inflight[i].segmentId
                  => state'.segments[k].content = Trim(a.value)
             /\ state'.error = state.error
             /\ ~state'.isLoading
             /\ completion'.kind = "return"]_vars

\* segmentize("Aa") found an unreadable record under its key, went to the
\* provider, and installed the provider's segments although the cache write
\* failed and left the unreadable record in place.
C16_Witness ==
  /\ lastOp = "answerBreak"
  /\ lastAnswer[1].ok
  /\ state.segments # <<>>
  /\ state.error = <<>>
  /\ lastCall # <<>>
  /\ lastCall[1].key = GenerateCacheKey("break-segments", state.originalPrompt)
  /\ lastCall[1].sent = 1
  /\ Unreadable(cache, lastCall[1].key)
  /\ state.originalPrompt \in DOMAIN lastFresh
  /\ ~lastFresh[state.originalPrompt].written

\* C17: when the storage write of a saveSession fails, the failure is not
\* thrown out of saveSession, AppState (its error too) is as it was, and
\* the interval that saves is still set.
C17_SaveFailureAbsorbed ==
  /\ lastOp \in {"debounce", "periodic"}
  /\ lastSave # <<>>
  /\ ~lastSave[1].written
  => /\ completion.kind = "return"
     /\ state = before
     /\ periodic # <<>>

\* The session record is corrupt: it is no JSON text, or it is not an object
\* whose originalPrompt is a string and whose segments is an array.
Corrupt(item) ==
  \/ ~JsonParse(item).ok
  \/ JsonParse(item).value.type # "object"
  \/ LET saved == JsonParse(item).value.v IN
       \/ "originalPrompt" \notin DOMAIN saved
       \/ "segments" \notin DOMAIN saved
       \/ ~IsString(saved.originalPrompt)
       \/ ~IsArray(saved.segments)

\* C18: a loadSession (App calls it on mount) that finds no session record,
\* or a corrupt one, returns false and leaves AppState as it was; the
\* corrupt record is not fatal to the program, and no value that is not a
\* sequence is set as segments.
C18_CorruptSessionIsNoSession ==
  /\ lastOp \in {"mount", "loadSession"}
  /\ session = <<>> \/ Corrupt(session[1])
  => /\ completion = Returned(<<FALSE>>)
     /\ state = before
     /\ fatal = <<>>

\* C19: an updateSegment(id, fields) whose id no segment of the store has
\* leaves segments, originalPrompt, finalOutput, isLoading and error as they
\* were, returns, and raises no failure.
C19_UnknownIdIsNoOp ==
  [][\A u \in StaleUpdates :
       (/\ UpdateSegment(StaleId, u)
        /\ \A i \in 1..Len(state.segments) : state.segments[i].id # StaleId)
       => /\ state' = state
          /\ completion' = Returned(<<>>)
          /\ fatal' = fatal]_vars

\* updateSegment ran with the stale id and the fields of an include checkbox
\* on a store that holds segments, all of them included.
C19_Witness ==
  /\ lastOp = "updateSegment"
  /\ lastArg = <<StaleId, [isIncluded |-> FALSE]>>
  /\ before.segments # <<>>
  /\ \A i \in 1..Len(state.segments) : state.segments[i].isIncluded
  /\ state = before

\* C20: a reorderSegments(L) whose L is the segments of the store in their
\* present order leaves finalOutput as it is, also when it is next
\* recomputed, and leaves the order of every segment as it is.
C20_SameOrderIsNoOp ==
  [][ReorderSegments(state.segments) =>
       /\ state'.finalOutput = state.finalOutput
       /\ IncludedContent(state'.segments) = state.finalOutput
       /\ Len(state'.segments) = Len(state.segments)
       /\ \A i \in 1..Len(state.segments) :
            /\ state'.segments[i].id = state.segments[i].id
            /\ state'.segments[i].order = state.segments[i].order]_vars

\* reorderSegments ran with the two or more segments of the store in their
\* present order, on a store with a non-empty output.
C20_Witness ==
  /\ lastOp = "reorderSegments"
  /\ lastArg = <<before.segments>>
  /\ Len(before.segments) >= 2
  /\ before.finalOutput # <<>>
  /\ state.finalOutput = before.finalOutput

\* The ids of a sequence of segments.
Ids(segments) == {segments[i].id : i \in 1..Len(segments)}

\* L holds each segment of `segments` once, by id.
IsPermutation(L, segments) ==
  /\ Len(L) = Len(segments)
  /\ Ids(L) = Ids(segments)
  /\ Cardinality(Ids(L)) = Len(L)

\* The contents of the included elements of L, in the sequence of L.
RECURSIVE ContentsInSequence(_)
ContentsInSequence(L) ==
  IF L = <<>> THEN <<>>
  ELSE (IF Head(L).isIncluded THEN <<Head(L).content>> ELSE <<>>)
       \o ContentsInSequence(Tail(L))

\* C21: a reorderSegments(L) with L a permutation of the segments leaves
\* the segment at position i of L at position i of the store with order
\* i - 1 (positions from 1), and the recomputation that follows makes
\* finalOutput the contents of the included segments in the sequence of L,
\* joined by a blank line.
C21_OrderAndOutputFollowL ==
  [][/\ (lastOp' = "reorderSegments" /\ IsPermutation(lastArg'[1], state.segments))
        => /\ Len(state'.segments) = Len(lastArg'[1])
           /\ \A i \in 1..Len(lastArg'[1]) :
                /\ state'.segments[i].id = lastArg'[1][i].id
                /\ state'.segments[i].order = i - 1
     /\ (lastOp = "reorderSegments" /\ lastOp' = "flushEffects")
        => state'.finalOutput = Join(ContentsInSequence(lastArg[1]), BlankLine)]_vars

\* reorderSegments ran with a list that starts with another segment than
\* the store did, of other content, all segments included.
C21_Witness ==
  /\ lastOp = "reorderSegments"
  /\ Len(before.segments) >= 2
  /\ IsPermutation(lastArg[1], before.segments)
  /\ lastArg[1][1].id # before.segments[1].id
  /\ lastArg[1][1].content # before.segments[1].content
  /\ \A i \in 1..Len(state.segments) : state.segments[i].isIncluded
  /\ state.segments[1].id = lastArg[1][1].id

\* C22: setOriginalPrompt leaves a request that is outstanding where it is,
\* and the segments the service makes of the provider's answer to a
\* segmentize request become the segments of the store whatever the prompt
\* of the store is by then; the prompt stays what setOriginalPrompt made it.
C22_StaleResultApplied ==
  [][/\ lastOp' = "setOriginalPrompt" => inflight' = inflight
     /\ \A i \in 1..Len(inflight) : \A a \in BreakAnswers : \A w \in BOOLEAN :
          (a.kind = "json" /\ AnswerBreak(i, a, w))
          => /\ state'.segments = ToPromptSegments(a.value, now)
             /\ state'.originalPrompt = state.originalPrompt]_vars

\* The provider answered the request for "Aa" after the prompt had become
\* "BB": the store holds "BB" with the segments made for "Aa".
C22_Witness ==
  /\ lastOp = "answerBreak"
  /\ lastAnswer[1].ok
  /\ state.originalPrompt = PromptBB
  /\ before.originalPrompt = PromptBB
  /\ DOMAIN lastFresh = {PromptAa}
  /\ lastFresh[PromptAa].at = now
  /\ state.segments = lastFresh[PromptAa].result
  /\ state.segments # <<>>

\* C23: the provider receives a request only in a step that is a call of
\* breakPromptIntoSegments or makeConcise, and one request per call; the
\* step in which an answer arrives, a failure included, sends none and
\* leaves no request of its own outstanding.
C23_NoAutomaticRetry ==
  [][/\ providerCalls' # providerCalls
        => /\ lastOp' \in {"breakPromptIntoSegments", "makeConcise"}
           /\ providerCalls' = providerCalls + 1
           /\ Len(inflight') = Len(inflight) + 1
     /\ lastOp' \in {"answerBreak", "answerConcise"}
        => /\ providerCalls' = providerCalls
           /\ Len(inflight') = Len(inflight) - 1]_vars

\* After the one request of the first call had failed and left its error, a
\* second call of breakPromptIntoSegments sent the second request.
C23_Witness ==
  /\ lastOp = "breakPromptIntoSegments"
  /\ lastAnswer # <<>>
  /\ ~lastAnswer[1].ok
  /\ before.error # <<>>
  /\ providerCalls = 2
  /\ Len(inflight) = 1
  /\ lastCall[1].sent = 1

\* C24: the segments that a segmentize resolution installs, from the provider
\* or from the cache, have ids that differ from one another and from the id
\* of every segment that the resolution of an earlier provider answer
\* installed.
C24_FreshIds ==
  [][(\/ lastOp' = "answerBreak" /\ lastAnswer'[1].ok
      \/ /\ lastOp' = "breakPromptIntoSegments"
         /\ fx'
         /\ lastCall' # <<>>
         /\ lastCall'[1].hit)
     => /\ Cardinality(Ids(state'.segments)) = Len(state'.segments)
        /\ \A p \in DOMAIN lastFresh :
             Ids(lastFresh[p].result) \cap Ids(state'.segments) = {}]_vars

\* The segments that a successful segmentize installs for the provider's
\* list `records`, `titled` telling which records count as having a title.
SegmentsAsClaimed(segments, records, titled(_)) ==
  /\ Len(segments) = Len(records)
  /\ \A i \in 1..Len(records) :
       /\ segments[i].order = i - 1
       /\ segments[i].isIncluded
       /\ ~segments[i].isEditing
       /\ ~segments[i].isExpanded
       /\ segments[i].title =
            IF titled(records[i]) THEN records[i].title
            ELSE <<83, 101, 103, 109, 101, 110, 116, 32, 48 + i>>
       /\ segments[i].content =
            IF "content" \in DOMAIN records[i] THEN records[i].content
            ELSE <<>>

HasTitle(record) == "title" \in DOMAIN record
HasNonEmptyTitle(record) == "title" \in DOMAIN record /\ record.title # <<>>

\* C25 (as claimed): the segments installed for a provider list of N records
\* are N segments in the sequence of the list, the one at position i
\* (0-based) with order i, included, not editing, not expanded, with the
\* record's title, or "Segment i+1" when the record has no title, and the
\* record's content, or the empty string when it has none.
C25_SegmentsOfRecords ==
  lastOp = "answerBreak" /\ lastAnswer[1].ok
  => SegmentsAsClaimed(state.segments, lastAnswer[1].answer.value, HasTitle)

\* C25: as above, with the title "Segment i+1" also when the record's title
\* is the empty string.
C25_SegmentsOfRecordsEmptyTitle ==
  lastOp = "answerBreak" /\ lastAnswer[1].ok
  => SegmentsAsClaimed(state.segments, lastAnswer[1].answer.value,
                       HasNonEmptyTitle)

\* The provider's list was a record without title and a record without
\* content, and its two segments are installed.
C25_Witness ==
  /\ lastOp = "answerBreak"
  /\ lastAnswer[1].ok
  /\ lastAnswer[1].answer.value = << [content |-> <<98>>], [title |-> <<85>>] >>
  /\ Len(state.segments) = 2
  /\ state.segments[1].content = <<98>>
  /\ state.segments[2].title = <<85>>

\* C26 (as claimed): after a save by the debounce or the periodic source,
\* the value under the session key is exactly the snapshot of the store's
\* originalPrompt and segments at the time the save ran.
C26_LastSaveWins ==
  lastOp \in {"debounce", "periodic"}
  => session = <<SessionText(Snapshot(state), now)>>

\* C26: a save by either source whose write goes through leaves under the
\* session key exactly the snapshot it wrote, whatever the key held; a save
\* whose write fails leaves the key as it was.  The snapshot is that of the
\* render that set the timer: the originalPrompt and segments of the store
\* whenever the effects of the last change have run.
C26_LastWrittenSaveWins ==
  [][lastOp' \in {"debounce", "periodic"}
     => /\ lastSave'[1].at = now
        /\ lastSave'[1].written
           => session' = <<SessionText(lastSave'[1].snap, now)>>
        /\ ~lastSave'[1].written => session' = session
        /\ ~fx => lastSave'[1].snap = Snapshot(state)]_vars

\* The debounce source wrote the store's prompt and segments, one of them
\* excluded since, over the record of the previous run.
C26_Witness ==
  /\ lastOp = "debounce"
  /\ lastSave[1].written
  /\ session = <<SessionText(Snapshot(state), now)>>
  /\ session \notin InitialSessions
  /\ \E i \in 1..Len(state.segments) : ~state.segments[i].isIncluded

\* The parameters that limit the length of the provider's output.
LengthLimits == {"max_tokens", "max_completion_tokens"}

\* C27: the parameters of every request sent to the provider, of either
\* operation, follow from the model alone: gpt-5-mini sends no limit of the
\* output length and temperature 1; every other model sends a limit of the
\* output length and a temperature below 1.
C27_ProfileByModel ==
  \A i \in 1..Len(inflight) :
    LET params == inflight[i].params IN
    IF params.model = "gpt-5-mini"
    THEN DOMAIN params \cap LengthLimits = {} /\ params.temperature = 10
    ELSE DOMAIN params \cap LengthLimits # {} /\ params.temperature < 10

\* C28: when the provider's text for a condense request arrives and the
\* segment of the request has by then another content than the one sent, the
\* trimmed text still becomes the content of that segment.
C28_CondenseOverwritesEdit ==
  [][\A i \in 1..Len(inflight) : \A a \in ConciseAnswers : \A w \in BOOLEAN :
       (a.kind = "text" /\ AnswerConcise(i, a, w))
       => \A k \in 1..Len(state.segments) :
            (/\ state.segments[k].id = inflight[i].segmentId
             /\ state.segments[k].content # inflight[i].input)
            => state'.segments[k].content = Trim(a.value)]_vars

\* The only request sent was a condense of a segment; its content was
\* edited while the request was outstanding, and the provider's text has
\* replaced the edit.
C28_Witness ==
  /\ lastOp = "answerConcise"
  /\ lastAnswer[1].ok
  /\ providerCalls = 1
  /\ lastCall[1].op = "concise"
  /\ lastCall[1].sent = 1
  /\ lastCall[1].input # EditedContent
  /\ \E k \in 1..Len(state.segments) :
       /\ before.segments[k].content = EditedContent
       /\ state.segments[k].content = <<99>>

\* Between `old` and `new` nothing of the segments changed but the fields
\* `named` of the segment with `id`: their number, their sequence, every
\* other segment and the other fields of that segment are the same.
OnlyNamedFields(old, new, id, named) ==
  /\ Len(new) = Len(old)
  /\ \A k \in 1..Len(old) :
       IF old[k].id = id
       THEN /\ DOMAIN new[k] = DOMAIN old[k]
            /\ \A f \in DOMAIN old[k] \ named : new[k][f] = old[k][f]
       ELSE new[k] = old[k]

\* An updateSegment step for an id the store has.
UpdateOfPresent ==
  /\ lastOp' = "updateSegment"
  /\ lastArg'[1] \in Ids(state.segments)

\* C29 (as claimed): an updateSegment(id, fields) for an id of the store,
\* and the step that applies the provider's condensed text to a segment,
\* change only the named fields of that segment and leave originalPrompt,
\* isLoading and error as they were.
C29_FrameWithLoading ==
  [][/\ UpdateOfPresent
        => /\ OnlyNamedFields(state.segments, state'.segments,
                              lastArg'[1], DOMAIN lastArg'[2])
           /\ state'.originalPrompt = state.originalPrompt
           /\ state'.isLoading = state.isLoading
           /\ state'.error = state.error
     /\ \A i \in 1..Len(inflight) : \A a \in ConciseAnswers : \A w \in BOOLEAN :
          (a.kind = "text" /\ AnswerConcise(i, a, w))
          => /\ OnlyNamedFields(state.segments, state'.segments,
                                inflight[i].segmentId, {"content"})
             /\ state'.originalPrompt = state.originalPrompt
             /\ state'.isLoading = state.isLoading
             /\ state'.error = state.error]_vars

\* C29: as above, but for isLoading, which updateSegment leaves as it was
\* and which the step that applies a condensed text sets to false; a text
\* served from the cache is applied with the same frame on the segments and
\* the prompt.
C29_FrameButLoading ==
  [][/\ UpdateOfPresent
        => /\ OnlyNamedFields(state.segments, state'.segments,
                              lastArg'[1], DOMAIN lastArg'[2])
           /\ state'.originalPrompt = state.originalPrompt
           /\ state'.isLoading = state.isLoading
           /\ state'.error = state.error
     /\ \A i \in 1..Len(inflight) : \A a \in ConciseAnswers : \A w \in BOOLEAN :
          (a.kind = "text" /\ AnswerConcise(i, a, w))
          => /\ OnlyNamedFields(state.segments, state'.segments,
                                inflight[i].segmentId, {"content"})
             /\ state'.originalPrompt = state.originalPrompt
             /\ ~state'.isLoading
             /\ state'.error = state.error
     /\ (lastOp' = "makeConcise" /\ fx')
        => /\ OnlyNamedFields(state.segments, state'.segments,
                              lastArg'[1], {"content"})
           /\ state'.originalPrompt = state.originalPrompt]_vars

\* The provider's text was applied to one of two segments of a loading
\* store: the content of that segment changed and isLoading became false.
C29_Witness ==
  /\ lastOp = "answerConcise"
  /\ lastAnswer[1].ok
  /\ Len(state.segments) >= 2
  /\ before.isLoading
  /\ ~state.isLoading
  /\ \E k \in 1..Len(state.segments) :
       /\ state.segments[k].content # before.segments[k].content
       /\ state.segments[k].content = <<99>>

\* C30: reorderSegments(L), L a permutation of the store's segments by id,
\* changes only order and position: each segment of the store is found
\* after the step with the id, title, content and isIncluded it had, and
\* originalPrompt, isLoading and error are as they were.
C30_ReorderKeepsFields ==
  [][(lastOp' = "reorderSegments" /\ IsPermutation(lastArg'[1], state.segments))
     => /\ Len(state'.segments) = Len(state.segments)
        /\ \A k \in 1..Len(state.segments) :
             \E j \in 1..Len(state'.segments) :
               /\ state'.segments[j].id = state.segments[k].id
               /\ state'.segments[j].title = state.segments[k].title
               /\ state'.segments[j].content = state.segments[k].content
               /\ state'.segments[j].isIncluded = state.segments[k].isIncluded
        /\ state'.originalPrompt = state.originalPrompt
        /\ state'.isLoading = state.isLoading
        /\ state'.error = state.error]_vars

\* Two segments changed places, one of them excluded, and the excluded one
\* is still excluded at its new position.
C30_Witness ==
  /\ lastOp = "reorderSegments"
  /\ Len(state.segments) >= 2
  /\ IsPermutation(lastArg[1], before.segments)
  /\ state.segments[1].id = before.segments[2].id
  /\ ~before.segments[2].isIncluded
  /\ ~state.segments[1].isIncluded
  /\ state.segments[1].order = 0
  /\ before.segments[2].order = 1

\* C31: the step that applies the failure of an AI operation leaves
\* originalPrompt, segments and finalOutput as they were, and writes no
\* entry of the cache.
C31_FailureKeepsContent ==
  [][(lastOp' \in {"answerBreak", "answerConcise"} /\ ~lastAnswer'[1].ok)
     => /\ state'.originalPrompt = state.originalPrompt
        /\ state'.segments = state.segments
        /\ state'.finalOutput = state.finalOutput
        /\ cache' = cache
        /\ stored' = stored]_vars

\* A condense request failed in a loading store that has segments, an
\* output and a cache entry: the error is shown and the segments are there.
C31_Witness ==
  /\ lastOp = "answerConcise"
  /\ ~lastAnswer[1].ok
  /\ before.isLoading
  /\ ~state.isLoading
  /\ state.error = lastAnswer[1].message
  /\ state.segments # <<>>
  /\ state.finalOutput # <<>>
  /\ DOMAIN cache # {}

\* C32: with a provider that answers, a loading store comes to
\* isLoading = false; isLoading is false whenever no request is outstanding,
\* and only the dispatch of an AI operation makes it true.
C32_LoadingEnds ==
  /\ [](state.isLoading => <>(~state.isLoading))
  /\ [](inflight = <<>> => ~state.isLoading)
  /\ [][(~state.isLoading /\ state'.isLoading)
        => /\ lastOp' \in {"breakPromptIntoSegments", "makeConcise"}
           /\ Len(inflight') = Len(inflight) + 1]_vars

\* Two requests were dispatched and both are answered, the second with a
\* failure; the store was loading before the last answer and is not now.
C32_Witness ==
  /\ lastOp \in {"answerBreak", "answerConcise"}
  /\ ~lastAnswer[1].ok
  /\ providerCalls >= 2
  /\ inflight = <<>>
  /\ before.isLoading
  /\ ~state.isLoading

\* C33: breakPromptIntoSegments called on a prompt that is empty or only
\* whitespace, and makeConcise called with an id that no segment has, change
\* no field of the state (isLoading is as it was), send no request, and do
\* not call the service, which is where the cache is read.
C33_GuardedCallDoesNothing ==
  [][(\/ lastOp' = "breakPromptIntoSegments" /\ Trim(state.originalPrompt) = <<>>
      \/ lastOp' = "makeConcise" /\ lastArg'[1] \notin Ids(state.segments))
     => /\ state' = state
        /\ cache' = cache
        /\ inflight' = inflight
        /\ providerCalls' = providerCalls
        /\ lastCall' = lastCall]_vars

\* makeConcise was called with the id of no segment on a store that has
\* segments and an initialized service, and the store is as it was.
C33_Witness ==
  /\ lastOp = "makeConcise"
  /\ lastArg[1] \notin Ids(state.segments)
  /\ service # <<>>
  /\ state.segments # <<>>
  /\ ~state.isLoading
  /\ state = before

\* C34: while no credential is configured, as after setConfig(null), no step
\* sends a request to the provider.
C34_ClearedCredentialSilences ==
  [][config = <<>> => providerCalls' = providerCalls]_vars

\* C35: no save of either autosave source, written or not, is of a snapshot
\* without segments, and the session key holds nothing or a record whose
\* segments list is not empty.
C35_NoEmptySnapshot ==
  /\ lastSave # <<>> => Len(lastSave[1].snap.segments) > 0
  /\ session # <<>>
     => /\ PersistedSnapshot # <<>>
        /\ Len(PersistedSnapshot[1].segments) > 0

\* The store was emptied by a new prompt after the record of the previous
\* run was loaded; the timeout set before fired and wrote, and the record
\* under the key is the one with segments that it wrote.
C35_Witness ==
  /\ lastOp = "debounce"
  /\ lastSave[1].written
  /\ state.segments = <<>>
  /\ state.originalPrompt = PromptBB
  /\ session \notin InitialSessions
  /\ Len(PersistedSnapshot[1].segments) > 0

====
